---- MODULE Spec2Model ----
(***************************************************************************)
(* Model of configs/datasets_config.py (the dataset registry) and of       *)
(* scripts/gen_qmugs.py (the generation script).                           *)
(*                                                                         *)
(* Three specifications:                                                   *)
(*   SpecInfo  a driver that calls get_dataset_info on names and flags;    *)
(*   Spec      runs of the script as written: main parses the arguments    *)
(*             and calls gen, which asks the registry for 'qmugs';         *)
(*   SpecBody  lines 50-131 of gen, entered with a registry record in      *)
(*             dataset_info (a state the lookup of line 49 does not        *)
(*             produce with the registry of datasets_config.py).           *)
(*                                                                         *)
(* Python indices are 0-based; sequences here are 1-based, so list element *)
(* k of the source is element k + 1 of the sequence that models it.        *)
(***************************************************************************)
EXTENDS Integers, Sequences, FiniteSets, TLC

VARIABLES
    lookups,            \* SpecInfo: the calls made so far, with their outcomes
    pc,                 \* position in main / gen
    args,               \* the argparse namespace (mutated by gen)
    dirs,               \* directories that exist (os.makedirs)
    cache_file,         \* whether checkpoints/<name>/train_mems.npy exists
    csv_files,          \* written CSV files: path -> table
    trace,              \* stages entered by the current run, in order
    exc,                \* the exception that ended the current run, or None
    dataset_info,       \* local of gen
    n_batches,          \* length of the training loader
    i,                  \* loop index (train loop, then re-encoding loop)
    train_mems,         \* where the means came from and the batches concatenated
    cache_writes,       \* np.save calls of the current run
    cache_at_start,     \* whether the cache file existed when the run began
    train_entropy,      \* calc_entropy(train_mems)
    high_entropy_dims,
    low_entropy_dims,
    gen_mols,           \* local `gen` of gen(): the generated molecules
    pred_props,
    regen_idxs,
    pos,                \* rows returned by smiles_to_coords
    z_prime,
    encode_calls,       \* slices [lo, hi) passed to model.encode in the re-encoding loop
    sampler_calls,      \* sampler invocations of the current run
    regen,
    incoherence

vars == <<lookups, pc, args, dirs, cache_file, csv_files, trace, exc, dataset_info,
          n_batches, i, train_mems, cache_writes, train_entropy, high_entropy_dims,
          low_entropy_dims, gen_mols, pred_props, regen_idxs, pos, z_prime,
          encode_calls, sampler_calls, incoherence, regen, cache_at_start>>

None == "None"
NoMems == [source |-> "unset", batches |-> 0]

-----------------------------------------------------------------------------
(* Bounds of the model.                                                     *)

MaxLookups == 2         \* calls the SpecInfo driver makes
MaxSamples == 3         \* largest n_samples
MaxBatch == 2           \* largest batch_size
LatentDim == 2          \* latent dimensions modelled (128 in the source)
ExtraBatches == 1       \* how far a loader may exceed n_train_batches

(* Program constants.                                                       *)
n_train_batches == 1000
EntropyThreshold == 5
DefaultPerturbations == 100

-----------------------------------------------------------------------------
(* configs/datasets_config.py: the four records.  The histograms n_nodes   *)
(* and distances and the display fields colors_dic and radius_dic are data *)
(* that no operation of the repository reads; they are left out.           *)

qm9_with_h ==
    [name |-> "qm9",
     atom_encoder |-> ("H" :> 0) @@ ("C" :> 1) @@ ("N" :> 2) @@ ("O" :> 3) @@ ("F" :> 4),
     atom_decoder |-> <<"H", "C", "N", "O", "F">>,
     charge2idx |-> (1 :> 0) @@ (6 :> 1) @@ (7 :> 2) @@ (8 :> 3) @@ (9 :> 4),
     max_n_nodes |-> 29,
     atom_types |-> (1 :> 635559) @@ (2 :> 101476) @@ (0 :> 923537) @@ (3 :> 140202)
                    @@ (4 :> 2323),
     with_h |-> TRUE]

qm9_without_h ==
    [name |-> "qm9",
     atom_encoder |-> ("C" :> 0) @@ ("N" :> 1) @@ ("O" :> 2) @@ ("F" :> 3),
     atom_decoder |-> <<"C", "N", "O", "F">>,
     charge2idx |-> (6 :> 0) @@ (7 :> 1) @@ (8 :> 2) @@ (9 :> 3),
     max_n_nodes |-> 29,
     atom_types |-> (0 :> 635559) @@ (2 :> 140202) @@ (1 :> 101476) @@ (3 :> 2323),
     with_h |-> FALSE]

geom_with_h ==
    [name |-> "geom",
     atom_encoder |-> ("H" :> 0) @@ ("B" :> 1) @@ ("C" :> 2) @@ ("N" :> 3) @@ ("O" :> 4)
                      @@ ("F" :> 5) @@ ("Al" :> 6) @@ ("Si" :> 7) @@ ("P" :> 8)
                      @@ ("S" :> 9) @@ ("Cl" :> 10) @@ ("As" :> 11) @@ ("Br" :> 12)
                      @@ ("I" :> 13) @@ ("Hg" :> 14) @@ ("Bi" :> 15),
     atomic_nb |-> <<1, 5, 6, 7, 8, 9, 13, 14, 15, 16, 17, 33, 35, 53, 80, 83>>,
     atom_decoder |-> <<"H", "B", "C", "N", "O", "F", "Al", "Si", "P", "S", "Cl", "As",
                        "Br", "I", "Hg", "Bi">>,
     max_n_nodes |-> 181,
     atom_types |-> (0 :> 143905848) @@ (1 :> 290) @@ (2 :> 129988623) @@ (3 :> 20266722)
                    @@ (4 :> 21669359) @@ (5 :> 1481844) @@ (6 :> 1) @@ (7 :> 250)
                    @@ (8 :> 36290) @@ (9 :> 3999872) @@ (10 :> 1224394) @@ (11 :> 4)
                    @@ (12 :> 298702) @@ (13 :> 5377) @@ (14 :> 13) @@ (15 :> 34),
     with_h |-> TRUE]

\* A slip a registry edit could make: hydrogen dropped from the decoder list
\* while its entry stays in the encoder.
geom_no_h_stale ==
    [name |-> "geom",
     atom_encoder |-> ("H" :> 0) @@ ("B" :> 1) @@ ("C" :> 2) @@ ("N" :> 3) @@ ("O" :> 4)
                      @@ ("F" :> 5) @@ ("Al" :> 6) @@ ("Si" :> 7) @@ ("P" :> 8)
                      @@ ("S" :> 9) @@ ("Cl" :> 10) @@ ("As" :> 11) @@ ("Br" :> 12)
                      @@ ("I" :> 13) @@ ("Hg" :> 14) @@ ("Bi" :> 15),
     atomic_nb |-> <<5, 6, 7, 8, 9, 13, 14, 15, 16, 17, 33, 35, 53, 80, 83>>,
     atom_decoder |-> <<"B", "C", "N", "O", "F", "Al", "Si", "P", "S", "Cl", "As", "Br",
                        "I", "Hg", "Bi">>,
     max_n_nodes |-> 91,
     atom_types |-> (0 :> 290) @@ (1 :> 129988623) @@ (2 :> 20266722) @@ (3 :> 21669359)
                    @@ (4 :> 1481844) @@ (5 :> 1) @@ (6 :> 250) @@ (7 :> 36290)
                    @@ (8 :> 3999872) @@ (9 :> 1224394) @@ (10 :> 4) @@ (11 :> 298702)
                    @@ (12 :> 5377) @@ (13 :> 13) @@ (14 :> 34),
     with_h |-> FALSE]

geom_no_h ==
    [name |-> "geom",
     atom_encoder |-> ("B" :> 0) @@ ("C" :> 1) @@ ("N" :> 2) @@ ("O" :> 3) @@ ("F" :> 4)
                      @@ ("Al" :> 5) @@ ("Si" :> 6) @@ ("P" :> 7) @@ ("S" :> 8)
                      @@ ("Cl" :> 9) @@ ("As" :> 10) @@ ("Br" :> 11) @@ ("I" :> 12)
                      @@ ("Hg" :> 13) @@ ("Bi" :> 14),
     atomic_nb |-> <<5, 6, 7, 8, 9, 13, 14, 15, 16, 17, 33, 35, 53, 80, 83>>,
     atom_decoder |-> <<"B", "C", "N", "O", "F", "Al", "Si", "P", "S", "Cl", "As", "Br",
                        "I", "Hg", "Bi">>,
     max_n_nodes |-> 91,
     atom_types |-> (0 :> 290) @@ (1 :> 129988623) @@ (2 :> 20266722) @@ (3 :> 21669359)
                    @@ (4 :> 1481844) @@ (5 :> 1) @@ (6 :> 250) @@ (7 :> 36290)
                    @@ (8 :> 3999872) @@ (9 :> 1224394) @@ (10 :> 4) @@ (11 :> 298702)
                    @@ (12 :> 5377) @@ (13 :> 13) @@ (14 :> 34),
     with_h |-> FALSE]

(* A raised exception, as a value.                                          *)
Raise(msg) == [exception |-> msg]
IsRaise(r) == DOMAIN r = {"exception"}

\* The two remove_h branches exchanged.
get_dataset_info_swapped(dataset_name, remove_h) ==
    IF dataset_name = "qm9"
    THEN IF ~remove_h THEN qm9_without_h ELSE qm9_with_h
    ELSE IF dataset_name = "geom"
         THEN IF ~remove_h THEN geom_no_h ELSE geom_with_h
         ELSE Raise("Wrong dataset " \o dataset_name)

get_dataset_info(dataset_name, remove_h) ==
    IF dataset_name = "qm9"
    THEN IF ~remove_h THEN qm9_with_h ELSE qm9_without_h
    ELSE IF dataset_name = "geom"
         THEN IF ~remove_h THEN geom_with_h ELSE geom_no_h
         ELSE Raise("Wrong dataset " \o dataset_name)

-----------------------------------------------------------------------------
(* Values the locals of gen hold before gen assigns them.                   *)

LocalsIdle ==
    /\ dataset_info = None
    /\ n_batches = 0
    /\ i = 0
    /\ train_mems = NoMems
    /\ train_entropy = None
    /\ high_entropy_dims = None
    /\ low_entropy_dims = None
    /\ gen_mols = None
    /\ pred_props = None
    /\ regen_idxs = None
    /\ pos = None
    /\ z_prime = None
    /\ encode_calls = <<>>
    /\ sampler_calls = <<>>
    /\ regen = None
    /\ incoherence = None

LocalsReset ==
    /\ dataset_info' = None
    /\ n_batches' = 0
    /\ i' = 0
    /\ train_mems' = NoMems
    /\ train_entropy' = None
    /\ high_entropy_dims' = None
    /\ low_entropy_dims' = None
    /\ gen_mols' = None
    /\ pred_props' = None
    /\ regen_idxs' = None
    /\ pos' = None
    /\ z_prime' = None
    /\ encode_calls' = <<>>
    /\ sampler_calls' = <<>>
    /\ regen' = None
    /\ incoherence' = None

locals == <<dataset_info, n_batches, i, train_mems, train_entropy, high_entropy_dims,
            low_entropy_dims, gen_mols, pred_props, regen_idxs, pos, z_prime,
            encode_calls, sampler_calls, regen, incoherence>>

files == <<dirs, cache_file, csv_files>>

-----------------------------------------------------------------------------
(* SpecInfo: get_dataset_info applied to names and flags.                   *)

DatasetNames == {"qm9", "geom", "qmugs", "QM9", ""}

InitInfo ==
    /\ lookups = <<>>
    /\ pc = "info"
    /\ args = None
    /\ dirs = {}
    /\ cache_file = FALSE
    /\ csv_files = <<>>
    /\ trace = <<>>
    /\ exc = None
    /\ cache_writes = 0
    /\ cache_at_start = cache_file
    /\ LocalsIdle

CallGetDatasetInfo ==
    /\ pc = "info"
    /\ Len(lookups) < MaxLookups
    /\ \E dataset_name \in DatasetNames, remove_h \in BOOLEAN :
          lookups' = Append(lookups, [dataset_name |-> dataset_name,
                                      remove_h |-> remove_h,
                                      result |-> get_dataset_info(dataset_name, remove_h)])
    /\ UNCHANGED <<pc, args, files, trace, exc, cache_writes, cache_at_start, locals>>

NextInfo == CallGetDatasetInfo

SpecInfo == InitInfo /\ [][NextInfo]_vars

-----------------------------------------------------------------------------
(* Spec: the script as written.                                             *)

SampleMethods == {"direct", "robust"}       \* argparse choices, line 145
PropertyLists == {<<>>, <<"gap">>}          \* --properties, line 160
RunNames == {"run"}                         \* --name, line 138

ArgSpace ==
    [name : RunNames,
     ckpt_epoch : {"1000"},
     sample_dir : {"samples"},
     n_samples : 0..MaxSamples,
     sample_method : SampleMethods,
     n_perturbations : {DefaultPerturbations},
     radius : {"0.1"},
     batch_size : 1..MaxBatch,
     remove_h : BOOLEAN,
     properties : PropertyLists,
     calc_coherence : BOOLEAN,
     predict_property : {None}]

(* prop_key of qmugs.utils: a property name to its column key.              *)
prop_key(prop) == <<"key", prop>>

gen_name == args.name \o "_" \o args.sample_method \o "_" \o args.ckpt_epoch
gen_dir == args.sample_dir \o "/" \o gen_name
gen_path == gen_dir \o "/" \o args.name \o "_gen.csv"

Finished == pc \in {"done", "aborted"}

Init ==
    /\ lookups = <<>>
    /\ pc = "idle"
    /\ args = None
    /\ dirs = {}
    /\ cache_file \in BOOLEAN
    /\ csv_files = <<>>
    /\ trace = <<>>
    /\ exc = None
    /\ cache_writes = 0
    /\ cache_at_start = cache_file
    /\ LocalsIdle

(* lines 134-163: parse the arguments, call gen.  A finished process may be *)
(* followed by another one; the files stay.                                 *)
Main ==
    /\ pc = "idle" \/ Finished
    /\ args' \in ArgSpace
    /\ pc' = "setup"
    /\ trace' = <<>>
    /\ exc' = None
    /\ cache_writes' = 0
    /\ cache_at_start' = cache_file
    /\ LocalsReset
    /\ UNCHANGED <<lookups, files>>

(* lines 33-41: device and dtype (handed to the collaborators only), then   *)
(* the two os.makedirs(exist_ok=True) calls and gen_path.                   *)
Setup ==
    /\ pc = "setup"
    /\ dirs' = dirs \cup {args.sample_dir, gen_dir}
    /\ trace' = Append(trace, "makedirs")
    /\ pc' = "props"
    /\ UNCHANGED <<lookups, args, cache_file, csv_files, exc, cache_writes,
                   cache_at_start, locals>>

(* lines 44-48: the property names become keys; predict_property is set    *)
(* exactly when the list is not empty.                                      *)
MappedArgs(a) ==
    LET keys == [k \in 1..Len(a.properties) |-> prop_key(a.properties[k])]
    IN [a EXCEPT !.properties = keys, !.predict_property = (Len(keys) > 0)]

MapProperties ==
    /\ pc = "props"
    /\ args' = MappedArgs(args)
    /\ pc' = "lookup"
    /\ UNCHANGED <<lookups, files, trace, exc, cache_writes, cache_at_start, locals>>

\* The exception of the lookup recorded but not propagated.
LookupDatasetInfo_swallow ==
    /\ pc = "lookup"
    /\ LET r == get_dataset_info("qmugs", args.remove_h)
       IN /\ exc' = IF IsRaise(r) THEN r.exception ELSE None
          /\ dataset_info' = IF IsRaise(r) THEN None ELSE r
          /\ pc' = "load"
    /\ trace' = Append(Append(trace, "get_dataset_info"), "load_datasets")
    /\ UNCHANGED <<lookups, args, files, cache_writes, n_batches, i, train_mems,
                   train_entropy, high_entropy_dims, low_entropy_dims, gen_mols,
                   pred_props, regen_idxs, pos, z_prime, encode_calls, sampler_calls,
                   regen, incoherence, cache_at_start>>

(* line 49: dataset_info = get_dataset_info('qmugs', remove_h=args.remove_h); *)
(* gen has no handler, so an exception ends the run.                        *)
LookupDatasetInfo ==
    /\ pc = "lookup"
    /\ LET r == get_dataset_info("qmugs", args.remove_h)
       IN IF IsRaise(r)
          THEN /\ exc' = r.exception
               /\ pc' = "aborted"
               /\ UNCHANGED dataset_info
          ELSE /\ dataset_info' = r
               /\ pc' = "load"
               /\ UNCHANGED exc
    /\ trace' = Append(trace, "get_dataset_info")
    /\ UNCHANGED <<lookups, args, files, cache_writes, n_batches, i, train_mems,
                   train_entropy, high_entropy_dims, low_entropy_dims, gen_mols,
                   pred_props, regen_idxs, pos, z_prime, encode_calls, sampler_calls,
                   regen, incoherence, cache_at_start>>

Next == Main \/ Setup \/ MapProperties \/ LookupDatasetInfo

Spec == Init /\ [][Next]_vars

-----------------------------------------------------------------------------
(* The collaborators gen calls (vagrant.model, vagrant.conformers,          *)
(* vagrant.utils, pandas), by their contracts.  Their results are symbolic  *)
(* terms, so that which input a result came from stays visible.             *)

PyNone == [none |-> TRUE, rows |-> <<>>]
Array(rows) == [none |-> FALSE, rows |-> rows]
Null == [null |-> TRUE]
Score(a, b) == [null |-> FALSE, dist |-> <<a, b>>]

Min(a, b) == IF a < b THEN a ELSE b
Range(f) == {f[x] : x \in DOMAIN f}
Stage(t) == IF trace # <<>> /\ trace[Len(trace)] = t THEN trace ELSE Append(trace, t)

(* model.encode on one row; the decoder on one latent.                      *)
Encode(row) == <<"mu", row>>
Decode(z) == <<"mol", z>>
Conformer(mol) == <<"conf", mol>>
PriorZ(n) == [k \in 1..n |-> <<"z", k - 1>>]

(* Predicted properties: one row per latent and one column per property     *)
(* when prediction is enabled; otherwise absent (None) or a null column.    *)
PredProps(zz, a, absent) ==
    IF a.predict_property
    THEN Array([k \in 1..Len(zz) |->
                   [c \in 1..Len(a.properties) |-> <<"prop", zz[k], a.properties[c]>>]])
    ELSE IF absent THEN PyNone
         ELSE Array([k \in 1..Len(zz) |-> <<Null>>])

(* model.sample_direct / model.sample_robust: n molecules, their predicted  *)
(* properties and the latents used; with from_z the latents are those given.*)
Sampler(n, from_z, z, a, absent) ==
    LET zz == IF from_z THEN z ELSE PriorZ(n)
    IN [gen |-> [k \in 1..n |-> Decode(zz[k])],
        pred_props |-> PredProps(zz, a, absent),
        sampled_z |-> zz]

(* smiles_to_coords: the index maps it may return for n input molecules:    *)
(* each surviving input row once.                                           *)
RECURSIVE IndexMaps(_, _)
IndexMaps(S, len) ==
    IF len = 0 THEN {<<>>}
    ELSE {Append(m, x) : m \in IndexMaps(S, len - 1), x \in S} 

Injective(m) == \A a, b \in DOMAIN m : a # b => m[a] # m[b]

SurvivorMaps(n) ==
    UNION {{m \in IndexMaps(0..(n - 1), len) : Injective(m)} : len \in 0..n}

(* calc_coherence(gen, regen, regen_idxs, dist=True): one entry per         *)
(* generated molecule, a score where the index map names the row, null      *)
(* elsewhere.                                                               *)
calc_coherence(g, rg, idxs) ==
    [k \in 1..Len(g) |->
        IF \E j \in 1..Len(idxs) : idxs[j] = k - 1
        THEN LET j == CHOOSE j \in 1..Len(idxs) : idxs[j] = k - 1
             IN Score(g[k], rg[j])
        ELSE Null]

(* pred_props[:, 0] *)
FirstColumn(pp) ==
    IF pp.none THEN Raise("TypeError")
    ELSE IF \E k \in 1..Len(pp.rows) : Len(pp.rows[k]) = 0 THEN Raise("IndexError")
    ELSE [column |-> [k \in 1..Len(pp.rows) |-> pp.rows[k][1]]]

(* pd.DataFrame(dict of columns): the columns must have one length.         *)
DataFrame(smiles, predicted, inc) ==
    IF Len(smiles) = Len(predicted) /\ Len(predicted) = Len(inc)
    THEN [table |-> [k \in 1..Len(smiles) |->
                        [smiles |-> smiles[k],
                         predicted_property |-> predicted[k],
                         incoherence |-> inc[k]]]]
    ELSE Raise("ValueError")

-----------------------------------------------------------------------------
(* np.where(train_entropy >= 5.)[0] and np.where(train_entropy < 5.)[0]     *)

HighDims_strict(e) == {d \in DOMAIN e : e[d] > EntropyThreshold}

HighDims(e) == {d \in DOMAIN e : e[d] >= EntropyThreshold}

LowDims(e) == {d \in DOMAIN e : e[d] < EntropyThreshold}

EntropyValues == {EntropyThreshold - 1, EntropyThreshold, EntropyThreshold + 1}
EntropyVectors == [0..(LatentDim - 1) -> EntropyValues]

-----------------------------------------------------------------------------
(* SpecBody: lines 50-131 of gen.                                           *)

LoaderSizes == {0, 1, n_train_batches, n_train_batches + ExtraBatches}

(* The arguments at line 50: parsed, and mapped by lines 44-48.  remove_h  *)
(* is read by the lookup alone, so one value of it is enough here.          *)
BodyArgs == {MappedArgs(a) : a \in {b \in ArgSpace : ~b.remove_h}}

InitBody ==
    /\ lookups = <<>>
    /\ pc = "load"
    /\ args \in BodyArgs
    /\ dirs = {args.sample_dir, gen_dir}
    /\ cache_file \in BOOLEAN
    /\ cache_at_start = cache_file
    /\ csv_files = <<>>
    /\ trace = <<"makedirs", "get_dataset_info">>
    /\ exc = None
    /\ cache_writes = 0
    /\ dataset_info = get_dataset_info("geom", args.remove_h)
    /\ n_batches = 0
    /\ i = 0
    /\ train_mems = NoMems
    /\ train_entropy = None
    /\ high_entropy_dims = None
    /\ low_entropy_dims = None
    /\ gen_mols = None
    /\ pred_props = None
    /\ regen_idxs = None
    /\ pos = None
    /\ z_prime = None
    /\ encode_calls = <<>>
    /\ sampler_calls = <<>>
    /\ regen = None
    /\ incoherence = None

(* lines 50-53: load_datasets, compute_mean_mad, included_species (reads    *)
(* dataset_info['atomic_nb']), bond_types.                                  *)
LoadData ==
    /\ pc = "load"
    /\ trace' = Append(trace, "load_datasets")
    /\ IF "atomic_nb" \in DOMAIN dataset_info
       THEN pc' = "model" /\ UNCHANGED exc
       ELSE pc' = "aborted" /\ exc' = "KeyError: atomic_nb"
    /\ UNCHANGED <<lookups, args, files, cache_writes, cache_at_start, locals>>

(* lines 56-60 *)
InitModel ==
    /\ pc = "model"
    /\ trace' = Append(trace, "init_model")
    /\ pc' = "cache"
    /\ UNCHANGED <<lookups, args, files, exc, cache_writes, cache_at_start, locals>>

(* lines 63-64: np.load finds the file.                                     *)
LoadCache ==
    /\ pc = "cache"
    /\ cache_file
    /\ trace' = Append(trace, "np.load")
    /\ train_mems' = [source |-> "np.load", batches |-> 0]
    /\ pc' = "entropy"
    /\ UNCHANGED <<lookups, args, files, exc, cache_writes, cache_at_start, dataset_info,
                   n_batches, i, train_entropy, high_entropy_dims, low_entropy_dims,
                   gen_mols, pred_props, regen_idxs, pos, z_prime, encode_calls,
                   sampler_calls, regen, incoherence>>

(* lines 64-72: np.load raises FileNotFoundError; the loader is built and   *)
(* train_mems starts empty.                                                 *)
CacheMiss ==
    /\ pc = "cache"
    /\ ~cache_file
    /\ trace' = Append(trace, "np.load")
    /\ n_batches' \in LoaderSizes
    /\ train_mems' = [source |-> "encode", batches |-> 0]
    /\ i' = 0
    /\ pc' = "train_loop"
    /\ UNCHANGED <<lookups, args, files, exc, cache_writes, cache_at_start, dataset_info,
                   train_entropy, high_entropy_dims, low_entropy_dims,
                   gen_mols, pred_props, regen_idxs, pos, z_prime, encode_calls,
                   sampler_calls, regen, incoherence>>

(* lines 73-79: one iteration of the enumerate loop that is not the break.  *)
EncodeTrainBatch ==
    /\ pc = "train_loop"
    /\ i < n_batches
    /\ ~(i >= n_train_batches)
    /\ trace' = Stage("encode_train")
    /\ train_mems' = [train_mems EXCEPT !.batches = @ + 1]
    /\ i' = i + 1
    /\ UNCHANGED <<lookups, args, files, exc, cache_writes, cache_at_start, dataset_info,
                   n_batches, pc, train_entropy, high_entropy_dims, low_entropy_dims,
                   gen_mols, pred_props, regen_idxs, pos, z_prime, encode_calls,
                   sampler_calls, regen, incoherence>>

(* lines 73-75 and 80: the loader is exhausted or the break is taken, then  *)
(* np.save writes the cache file.                                           *)
SaveCache ==
    /\ pc = "train_loop"
    /\ i >= n_batches \/ i >= n_train_batches
    /\ trace' = Append(trace, "np.save")
    /\ cache_file' = TRUE
    /\ cache_writes' = cache_writes + 1
    /\ pc' = "entropy"
    /\ UNCHANGED <<lookups, args, dirs, csv_files, exc, cache_at_start, locals>>

(* lines 81-84 *)
CalcEntropy ==
    /\ pc = "entropy"
    /\ trace' = Append(trace, "calc_entropy")
    /\ train_entropy' \in EntropyVectors
    /\ high_entropy_dims' = HighDims(train_entropy')
    /\ low_entropy_dims' = LowDims(train_entropy')
    /\ pc' = "sample"
    /\ UNCHANGED <<lookups, args, files, exc, cache_writes, cache_at_start, dataset_info,
                   n_batches, i, train_mems, gen_mols, pred_props, regen_idxs, pos,
                   z_prime, encode_calls, sampler_calls, regen, incoherence>>

(* The record of one sampler call.                                          *)
SamplerCall(n, from_z, z) ==
    IF args.sample_method = "direct"
    THEN [method |-> "direct", n |-> n, from_z |-> from_z, z |-> z]
    ELSE [method |-> "robust", n |-> n, from_z |-> from_z, z |-> z,
          n_perturbations |-> args.n_perturbations, radius |-> args.radius,
          high_entropy_dims |-> high_entropy_dims, low_entropy_dims |-> low_entropy_dims]

(* lines 87-92 *)
Sample ==
    /\ pc = "sample"
    /\ trace' = Append(trace, "sample")
    /\ \E absent \in BOOLEAN :
          LET r == Sampler(args.n_samples, FALSE, <<>>, args, absent)
          IN /\ gen_mols' = r.gen
             /\ pred_props' = r.pred_props
    /\ sampler_calls' = Append(sampler_calls, SamplerCall(args.n_samples, FALSE, <<>>))
    /\ pc' = "coherence"
    /\ UNCHANGED <<lookups, args, files, exc, cache_writes, cache_at_start, dataset_info,
                   n_batches, i, train_mems, train_entropy, high_entropy_dims,
                   low_entropy_dims, regen_idxs, pos, z_prime, encode_calls, regen,
                   incoherence>>

(* lines 95-101: smiles_to_coords, then z_prime = torch.empty(0, 128).      *)
Reconstruct ==
    /\ pc = "coherence"
    /\ args.calc_coherence
    /\ trace' = Append(trace, "smiles_to_coords")
    /\ regen_idxs' \in SurvivorMaps(Len(gen_mols))
    /\ pos' = [j \in 1..Len(regen_idxs') |-> Conformer(gen_mols[regen_idxs'[j] + 1])]
    /\ z_prime' = <<>>
    /\ i' = 0
    /\ pc' = "reencode"
    /\ UNCHANGED <<lookups, args, files, exc, cache_writes, cache_at_start, dataset_info,
                   n_batches, train_mems, train_entropy, high_entropy_dims,
                   low_entropy_dims, gen_mols, pred_props, encode_calls, sampler_calls,
                   regen, incoherence>>

\* torch.cat dropped: z_prime = mu.
ReEncodeBatch_overwrite ==
    /\ pc = "reencode"
    /\ i < Len(pos)
    /\ LET hi == Min(i + args.batch_size, Len(pos))
           batch == SubSeq(pos, i + 1, hi)
           mu == [r \in 1..Len(batch) |-> Encode(batch[r])]
       IN /\ z_prime' = mu
          /\ encode_calls' = Append(encode_calls, [lo |-> i, hi |-> hi])
    /\ i' = i + args.batch_size
    /\ trace' = Stage("encode_recon")
    /\ UNCHANGED <<lookups, args, files, exc, cache_writes, cache_at_start, dataset_info,
                   n_batches, pc, train_mems, train_entropy, high_entropy_dims,
                   low_entropy_dims, gen_mols, pred_props, regen_idxs, pos,
                   sampler_calls, regen, incoherence>>

(* lines 102-112: one iteration of range(0, pos.shape[0], batch_size).      *)
ReEncodeBatch ==
    /\ pc = "reencode"
    /\ i < Len(pos)
    /\ LET hi == Min(i + args.batch_size, Len(pos))
           batch == SubSeq(pos, i + 1, hi)
           mu == [r \in 1..Len(batch) |-> Encode(batch[r])]
       IN /\ z_prime' = z_prime \o mu
          /\ encode_calls' = Append(encode_calls, [lo |-> i, hi |-> hi])
    /\ i' = i + args.batch_size
    /\ trace' = Stage("encode_recon")
    /\ UNCHANGED <<lookups, args, files, exc, cache_writes, cache_at_start, dataset_info,
                   n_batches, pc, train_mems, train_entropy, high_entropy_dims,
                   low_entropy_dims, gen_mols, pred_props, regen_idxs, pos,
                   sampler_calls, regen, incoherence>>

(* lines 102 (range exhausted) and 115-120: the re-sampling call.           *)
Resample ==
    /\ pc = "reencode"
    /\ ~(i < Len(pos))
    /\ trace' = Append(trace, "resample")
    /\ regen' = Sampler(Len(z_prime), TRUE, z_prime, args, TRUE).gen
    /\ sampler_calls' = Append(sampler_calls, SamplerCall(Len(z_prime), TRUE, z_prime))
    /\ pc' = "score"
    /\ UNCHANGED <<lookups, args, files, exc, cache_writes, cache_at_start, dataset_info,
                   n_batches, i, train_mems, train_entropy, high_entropy_dims,
                   low_entropy_dims, gen_mols, pred_props, regen_idxs, pos, z_prime,
                   encode_calls, incoherence>>

\* The index map replaced by the positions of the survivors.
CalcCoherence_positional ==
    /\ pc = "score"
    /\ trace' = Append(trace, "calc_coherence")
    /\ incoherence' = calc_coherence(gen_mols, regen, [j \in 1..Len(regen) |-> j - 1])
    /\ pc' = "write"
    /\ UNCHANGED <<lookups, args, files, exc, cache_writes, cache_at_start, dataset_info,
                   n_batches, i, train_mems, train_entropy, high_entropy_dims,
                   low_entropy_dims, gen_mols, pred_props, regen_idxs, pos, z_prime,
                   encode_calls, sampler_calls, regen>>

(* line 121 *)
CalcCoherence ==
    /\ pc = "score"
    /\ trace' = Append(trace, "calc_coherence")
    /\ incoherence' = calc_coherence(gen_mols, regen, regen_idxs)
    /\ pc' = "write"
    /\ UNCHANGED <<lookups, args, files, exc, cache_writes, cache_at_start, dataset_info,
                   n_batches, i, train_mems, train_entropy, high_entropy_dims,
                   low_entropy_dims, gen_mols, pred_props, regen_idxs, pos, z_prime,
                   encode_calls, sampler_calls, regen>>

(* lines 123-124: incoherence = [None] * args.n_samples                     *)
SkipCoherence ==
    /\ pc = "coherence"
    /\ ~args.calc_coherence
    /\ incoherence' = [k \in 1..args.n_samples |-> Null]
    /\ pc' = "write"
    /\ UNCHANGED <<lookups, args, files, trace, exc, cache_writes, cache_at_start,
                   dataset_info, n_batches, i, train_mems, train_entropy,
                   high_entropy_dims, low_entropy_dims, gen_mols, pred_props, regen_idxs,
                   pos, z_prime, encode_calls, sampler_calls, regen>>

(* lines 127-131: the column dict, pd.DataFrame, to_csv.                    *)
WriteCsv ==
    /\ pc = "write"
    /\ LET col == FirstColumn(pred_props)
           data == IF IsRaise(col) THEN col
                   ELSE DataFrame(gen_mols, col.column, incoherence)
       IN IF IsRaise(data)
          THEN /\ exc' = data.exception
               /\ pc' = "aborted"
               /\ UNCHANGED <<csv_files, trace>>
          ELSE /\ csv_files' = [p \in DOMAIN csv_files \cup {gen_path} |->
                                   IF p = gen_path THEN data.table ELSE csv_files[p]]
               /\ trace' = Append(trace, "to_csv")
               /\ pc' = "done"
               /\ UNCHANGED exc
    /\ UNCHANGED <<lookups, args, dirs, cache_file, cache_writes, cache_at_start, locals>>

NextBody ==
    \/ LoadData
    \/ InitModel
    \/ LoadCache
    \/ CacheMiss
    \/ EncodeTrainBatch
    \/ SaveCache
    \/ CalcEntropy
    \/ Sample
    \/ Reconstruct
    \/ ReEncodeBatch
    \/ Resample
    \/ CalcCoherence
    \/ SkipCoherence
    \/ WriteCsv

SpecBody == InitBody /\ [][NextBody]_vars

-----------------------------------------------------------------------------
(* Properties.                                                              *)

Recognized == {"qm9", "geom"}
Entered(t) == t \in Range(trace)

(* C1: get_dataset_info decides every input: (qm9, false) gives qm9_with_h, *)
(* (qm9, true) qm9_without_h, (geom, false) geom_with_h, (geom, true)       *)
(* geom_no_h, and any other name raises, whatever remove_h is.              *)
C1_LookupTotal ==
    \A k \in 1..Len(lookups) :
        LET c == lookups[k]
        IN /\ (c.dataset_name = "qm9" /\ ~c.remove_h) => c.result = qm9_with_h
           /\ (c.dataset_name = "qm9" /\ c.remove_h) => c.result = qm9_without_h
           /\ (c.dataset_name = "geom" /\ ~c.remove_h) => c.result = geom_with_h
           /\ (c.dataset_name = "geom" /\ c.remove_h) => c.result = geom_no_h
           /\ c.dataset_name \notin Recognized =>
                 c.result = Raise("Wrong dataset " \o c.dataset_name)

C1_Witness ==
    /\ Len(lookups) = 2
    /\ lookups[1] = [dataset_name |-> "geom", remove_h |-> TRUE, result |-> geom_no_h]
    /\ lookups[2].dataset_name = "qmugs"
    /\ IsRaise(lookups[2].result)

(* C3: in every record the registry returns, atom_encoder has as many       *)
(* entries as atom_decoder has elements, and every encoder value v          *)
(* satisfies 0 <= v < len(atom_decoder).                                    *)
C3_EncoderMatchesDecoder ==
    \A k \in 1..Len(lookups) :
        LET r == lookups[k].result
        IN ~IsRaise(r) =>
              /\ Cardinality(DOMAIN r.atom_encoder) = Len(r.atom_decoder)
              /\ \A sym \in DOMAIN r.atom_encoder :
                    0 <= r.atom_encoder[sym] /\ r.atom_encoder[sym] < Len(r.atom_decoder)

C3_Witness ==
    /\ Len(lookups) = 2
    /\ lookups[1].result = geom_no_h
    /\ lookups[2].result = qm9_with_h

(* The order of the stages of section 2 of the specification.               *)
StageRank(t) ==
    CASE t = "makedirs" -> 0
      [] t = "get_dataset_info" -> 1
      [] t = "load_datasets" -> 2
      [] t = "init_model" -> 3
      [] t = "np.load" -> 4
      [] t = "encode_train" -> 5
      [] t = "np.save" -> 6
      [] t = "calc_entropy" -> 7
      [] t = "sample" -> 8
      [] t = "smiles_to_coords" -> 9
      [] t = "encode_recon" -> 10
      [] t = "resample" -> 11
      [] t = "calc_coherence" -> 12
      [] t = "to_csv" -> 13

InOrder(tr) == \A a, b \in 1..Len(tr) : a < b => StageRank(tr[a]) < StageRank(tr[b])

CoherenceStages == {"smiles_to_coords", "resample", "calc_coherence"}

(* C2: a run of gen in which no collaborator fails goes through lookup and  *)
(* loading, entropy estimation, sampling, the coherence stages only when    *)
(* calc_coherence is set, and ends by writing the CSV file.                 *)
C2_StagesReachWriter ==
    Finished =>
        /\ exc = None
        /\ InOrder(trace)
        /\ {"get_dataset_info", "load_datasets", "calc_entropy", "sample", "to_csv"}
              \subseteq Range(trace)
        /\ args.calc_coherence => CoherenceStages \subseteq Range(trace)
        /\ ~args.calc_coherence => CoherenceStages \cap Range(trace) = {}
        /\ trace[Len(trace)] = "to_csv"
        /\ gen_path \in DOMAIN csv_files

(* C8: when the name handed to get_dataset_info is not a recognized one,    *)
(* the run ends at the lookup: no loader, model, encoder, sampler,          *)
(* reconstructor or writer stage is entered and no CSV file is written.     *)
C8_FailFast ==
    (Entered("get_dataset_info") /\ "qmugs" \notin Recognized) =>
        /\ pc = "aborted"
        /\ exc = "Wrong dataset qmugs"
        /\ Range(trace) \subseteq {"makedirs", "get_dataset_info"}
        /\ sampler_calls = <<>>
        /\ encode_calls = <<>>
        /\ cache_writes = 0
        /\ gen_path \notin DOMAIN csv_files

C8_Witness ==
    /\ pc = "aborted"
    /\ trace = <<"makedirs", "get_dataset_info">>
    /\ exc = "Wrong dataset qmugs"
    /\ args.calc_coherence

(* C5: a run that finds the cache file encodes no training batch and does   *)
(* not write the file; a run that does not find it encodes at most          *)
(* n_train_batches batches and writes the file exactly once.                *)
C5_CacheOnce ==
    Finished =>
        IF cache_at_start
        THEN /\ ~Entered("encode_train")
             /\ cache_writes = 0
        ELSE /\ cache_writes = 1
             /\ cache_file
             /\ train_mems.source = "encode"
             /\ train_mems.batches <= n_train_batches

(* C6: without calc_coherence, and with a sampler that returns n_samples    *)
(* molecules, the run writes a table of n_samples rows whose incoherence is *)
(* null in every row and whose predicted_property is present exactly when   *)
(* properties were asked for.                                               *)
C6_TableWithoutCoherence ==
    (Finished /\ ~args.calc_coherence) =>
        /\ gen_path \in DOMAIN csv_files
        /\ Entered("to_csv")
        /\ Len(csv_files[gen_path]) = args.n_samples
        /\ \A k \in 1..Len(csv_files[gen_path]) :
              /\ csv_files[gen_path][k].incoherence = Null
              /\ (csv_files[gen_path][k].predicted_property # Null)
                    <=> (Len(args.properties) > 0)

InitialCalls == {c \in 1..Len(sampler_calls) : ~sampler_calls[c].from_z}
ResampleCalls == {c \in 1..Len(sampler_calls) : sampler_calls[c].from_z}

(* C10: a run makes exactly one initial sampler call; with calc_coherence   *)
(* it makes one re-sampling call, by the same method, with from_z on        *)
(* z_prime, asking for as many molecules as z_prime has rows and, for the   *)
(* robust method, with the perturbation arguments and dimension sets of the *)
(* initial call; without calc_coherence it makes no re-sampling call.       *)
C10_SamplerCalls ==
    Finished =>
        /\ Cardinality(InitialCalls) = 1
        /\ ~args.calc_coherence => ResampleCalls = {}
        /\ args.calc_coherence =>
              /\ Cardinality(ResampleCalls) = 1
              /\ \A a \in InitialCalls, b \in ResampleCalls :
                    /\ a < b
                    /\ sampler_calls[b] = [sampler_calls[a] EXCEPT !.from_z = TRUE,
                                                                   !.z = z_prime,
                                                                   !.n = Len(z_prime)]

(* C4: the high and low entropy dimension sets are disjoint and together    *)
(* hold every latent dimension, split at the threshold: a dimension is high *)
(* exactly when its entropy is at least 5.                                  *)
C4_EntropyPartition ==
    Entered("calc_entropy") =>
        /\ high_entropy_dims \cap low_entropy_dims = {}
        /\ high_entropy_dims \cup low_entropy_dims = 0..(LatentDim - 1)
        /\ \A d \in 0..(LatentDim - 1) :
              (d \in high_entropy_dims) <=> (train_entropy[d] >= EntropyThreshold)

C4_Witness ==
    /\ Entered("calc_entropy")
    /\ train_entropy[0] = EntropyThreshold
    /\ train_entropy[1] = EntropyThreshold - 1
    /\ high_entropy_dims = {0}

Survivor(k) == \E j \in 1..Len(regen_idxs) : regen_idxs[j] = k - 1

LoopDone == pc \in {"score", "write", "done", "aborted"}

(* C9: the re-encoding loop takes the slices [i, i + batch_size) in         *)
(* increasing order of i, encodes every reconstructed row in exactly one    *)
(* slice, and leaves in z_prime one row per reconstructed molecule, row k   *)
(* the encoding of molecule k; with no reconstructed molecule it makes no   *)
(* encode call and z_prime is empty.                                        *)
C9_ReEncodeInOrder ==
    Entered("smiles_to_coords") =>
        /\ \A c \in 1..Len(encode_calls) :
              /\ encode_calls[c].lo = (c - 1) * args.batch_size
              /\ encode_calls[c].hi = Min(encode_calls[c].lo + args.batch_size, Len(pos))
        /\ z_prime = [k \in 1..Min(i, Len(pos)) |-> Encode(pos[k])]
        /\ LoopDone =>
              /\ Len(z_prime) = Len(pos)
              /\ \A k \in 0..(Len(pos) - 1) :
                    Cardinality({c \in 1..Len(encode_calls) :
                                    encode_calls[c].lo <= k /\ k < encode_calls[c].hi}) = 1
              /\ Len(pos) = 0 => (encode_calls = <<>> /\ z_prime = <<>>)

C9_Witness ==
    /\ pc = "score"
    /\ Len(pos) = 3
    /\ args.batch_size = 2
    /\ encode_calls = <<[lo |-> 0, hi |-> 2], [lo |-> 2, hi |-> 3]>>
    /\ Len(z_prime) = 3

====
